---- MODULE Spec2Model ----
(***************************************************************************)
(* The replication manager of pkg/controller/replication_controller.go:   *)
(* the per-controller reconcile (syncReplicationController), the pod       *)
(* actuator (RealPodControl), the deletion order (activePods.Less under    *)
(* sort.Sort), the periodic sweep (synchronize) and the watch loop         *)
(* (watchControllers under util.Forever).                                  *)
(*                                                                         *)
(* The API store is the environment.  A pod's label set is abstracted to   *)
(* one label value (NoLabels: the empty set); the namespace is folded into *)
(* that value, so "same namespace and labels match the selector" is        *)
(* Matches.  Spec.Host is abstracted to "assigned or not".                 *)
(***************************************************************************)
EXTENDS Integers, Sequences, FiniteSets, TLC

\* ------------------------------------------------------------ bounds
InitPods == 2
MaxReplicas == 2
SyncPods == 3

\* room for every pod the controllers can ask for on top of the initial ones
MaxPods == InitPods + MaxReplicas

PodIds == 1..MaxPods
RCs == {"r1", "r2"}
Tasks == {"ev"} \cup RCs

\* ------------------------------------------------------------ data
NoLabels == ""
EmptyRV == ""
\* the ResourceVersions the watched objects carry
Versions == {"v1", "v2"}

ActivePhases == {"Pending", "Unknown", "Running"}
TerminalPhases == {"Succeeded", "Failed"}
Phases == ActivePhases \cup TerminalPhases

NoPod == [label |-> NoLabels, phase |-> "None", host |-> FALSE, ready |-> FALSE]

\* the selector of each replication controller (Spec.Selector)
Selector(r) == IF r = "r1" THEN "a" ELSE "b"

\* labels.Set(sel).AsSelector().Matches(labels): the empty selector matches all
Matches(sel, label) == sel = NoLabels \/ label = sel

\* labels.Set(pod.Labels).AsSelector().Empty()
LabelsEmptyNever(l) == FALSE
LabelsEmpty(l) == l = NoLabels

\* api.IsPodReady
IsPodReady(p) == p.ready

\* ------------------------------------------------------------ filter and order
IsActiveNoFailed(p) == p.phase # "Succeeded"
IsActive(p) == p.phase # "Succeeded" /\ p.phase # "Failed"

filterActivePods(items) == SelectSeq(items, IsActive)

\* m := map[api.PodPhase]int{...}; a phase that is no key reads as 0
PhaseKey(ph) ==
    CASE ph = "Pending" -> 0
      [] ph = "Unknown" -> 1
      [] ph = "Running" -> 2
      [] OTHER -> 0

Less(a, b) ==
    IF ~a.host /\ b.host THEN TRUE
    ELSE IF PhaseKey(a.phase) # PhaseKey(b.phase)
         THEN PhaseKey(a.phase) < PhaseKey(b.phase)
         ELSE ~IsPodReady(a) /\ IsPodReady(b)

Swap(s, i, j) == [s EXCEPT ![i] = s[j], ![j] = s[i]]

\* sort.Sort on at most 7 elements is insertion sort:
\*   for i := a+1; i < b; i++ { for j := i; j > a && Less(j, j-1); j-- { Swap(j, j-1) } }
RECURSIVE Sift(_, _)
Sift(s, j) ==
    IF j > 1 /\ Less(s[j], s[j-1]) THEN Sift(Swap(s, j, j-1), j-1) ELSE s

RECURSIVE InsertionSort(_, _)
InsertionSort(s, i) ==
    IF i > Len(s) THEN s ELSE InsertionSort(Sift(s, i), i + 1)

SortPods(s) == InsertionSort(s, 2)

\* ------------------------------------------------------------ state
VARIABLES
    pods,     \* the pod store: PodIds -> pod, NoPod where no pod has that name
    rcs,      \* the controller store: RCs -> [exists, replicas, status, tmpl]
    task,     \* one syncReplicationController call per caller: Tasks -> record;
              \* failed: the kinds of store call that failed in it
    mux,      \* where the goroutine of Run is: "forever", "select", "event", "sweep"
    cursor,   \* *resourceVersion of Run, EmptyRV for ""
    opened,   \* the resourceVersion the last Watch call was given
    errSeen   \* since the last Watch call: "no" protocol error was received, "last"
              \* one was and no controller event since, "before" one was and a
              \* controller event followed

vars == <<pods, rcs, task, mux, cursor, opened, errSeen>>

\* ------------------------------------------------------------ the store
\* (the collaborator behind client.Interface; its calls may also fail)
Snap(i) == [name |-> i, phase |-> pods[i].phase, host |-> pods[i].host,
            ready |-> pods[i].ready]

\* Pods(ns).List(selector, fields.Everything()).Items, in the store's order
RECURSIVE ListFrom(_, _)
ListFrom(i, sel) ==
    IF i > MaxPods THEN <<>>
    ELSE (IF pods[i] # NoPod /\ Matches(sel, pods[i].label)
          THEN <<Snap(i)>> ELSE <<>>) \o ListFrom(i + 1, sel)

PodList(sel) == ListFrom(1, sel)

FreeIds == {i \in PodIds : pods[i] = NoPod}
MinOf(S) == CHOOSE x \in S : \A y \in S : x <= y

\* Pods(ns).Create(pod): the store names the pod (GenerateName) and starts it
\* Pending, on no host, not ready
StoreCreate(label) ==
    [pods EXCEPT ![MinOf(FreeIds)] =
        [label |-> label, phase |-> "Pending", host |-> FALSE, ready |-> FALSE]]

\* Pods(ns).Delete(name)
StoreDelete(name) == [pods EXCEPT ![name] = NoPod]

\* the active pods a controller owns, as the store has them now
Owned(r) == {i \in PodIds : pods[i] # NoPod /\ Matches(Selector(r), pods[i].label)}
ActiveOwned(r) == {i \in Owned(r) : pods[i].phase \notin TerminalPhases}

\* ------------------------------------------------------------ one reconcile
NoCtl == [name |-> "none", replicas |-> 0, status |-> 0, tmpl |-> NoLabels]

IdleTask == [pc |-> "idle", ctl |-> NoCtl, list |-> <<>>, num |-> 0, diff |-> 0,
             todo |-> {}, creates |-> 0, posts |-> 0,
             dels |-> [i \in PodIds |-> 0], updates |-> 0, err |-> FALSE,
             failed |-> {}]

\* the controller value a caller hands to syncHandler
CtlOf(r) == [name |-> r, replicas |-> rcs[r].replicas, status |-> rcs[r].status,
             tmpl |-> rcs[r].tmpl]

\* line 183 / line 288: the call begins with the controller value of its caller
StartTaskNone(r) == IdleTask
StartTask(r) == [IdleTask EXCEPT !.pc = "list", !.ctl = CtlOf(r)]

Abs(n) == IF n < 0 THEN -n ELSE n

\* diff := numActivePods - controller.Spec.Replicas
DiffOneMore(num, replicas) == num - replicas - 1
Diff(num, replicas) == num - replicas

\* line 226 fails: return err
ListPodsFail(t) ==
    /\ task[t].pc = "list"
    /\ task' = [task EXCEPT ![t].pc = "ret", ![t].err = TRUE,
                            ![t].failed = @ \cup {"list"}]
    /\ UNCHANGED <<pods, rcs, mux, cursor, opened, errSeen>>

\* lines 225-236 and 246-253: list, filter, diff, and the sort of the delete branch
ListPodsOk(t) ==
    /\ task[t].pc = "list"
    /\ LET filteredList == filterActivePods(PodList(Selector(task[t].ctl.name)))
           numActivePods == Len(filteredList)
           diff == Diff(numActivePods, task[t].ctl.replicas)
       IN task' = [task EXCEPT
              ![t].list = IF diff > 0 THEN SortPods(filteredList) ELSE filteredList,
              ![t].num = numActivePods,
              ![t].diff = diff,
              ![t].todo = 1..Abs(diff),
              ![t].pc = IF diff = 0 THEN "status" ELSE "act"]
    /\ UNCHANGED <<pods, rcs, mux, cursor, opened, errSeen>>

\* one goroutine of lines 238-243; the goroutines are alike, the lowest runs first.
\* createReplica, lines 93-96: no labels, no pod
CreateRefuse(t) ==
    /\ task[t].pc = "act" /\ task[t].diff < 0 /\ task[t].todo # {}
    /\ LabelsEmpty(task[t].ctl.tmpl)
    /\ task' = [task EXCEPT ![t].todo = @ \ {MinOf(@)}, ![t].creates = @ + 1]
    /\ UNCHANGED <<pods, rcs, mux, cursor, opened, errSeen>>

\* createReplica, line 97: the store creates the pod
CreateOk(t) ==
    /\ task[t].pc = "act" /\ task[t].diff < 0 /\ task[t].todo # {}
    /\ ~LabelsEmpty(task[t].ctl.tmpl)
    /\ FreeIds # {}
    /\ pods' = StoreCreate(task[t].ctl.tmpl)
    /\ task' = [task EXCEPT ![t].todo = @ \ {MinOf(@)}, ![t].creates = @ + 1,
                            ![t].posts = @ + 1]
    /\ UNCHANGED <<rcs, mux, cursor, opened, errSeen>>

\* createReplica, lines 97-100: the store refuses, the error is recorded and dropped
CreateFail(t) ==
    /\ task[t].pc = "act" /\ task[t].diff < 0 /\ task[t].todo # {}
    /\ ~LabelsEmpty(task[t].ctl.tmpl)
    /\ task' = [task EXCEPT ![t].todo = @ \ {MinOf(@)}, ![t].creates = @ + 1,
                            ![t].posts = @ + 1, ![t].failed = @ \cup {"create"}]
    /\ UNCHANGED <<pods, rcs, mux, cursor, opened, errSeen>>

\* line 257: filteredList[ix].Name, ix the goroutine's own argument
DeleteTargetShared(list, ix) == list[1].name
DeleteTarget(list, ix) == list[ix].name

\* one goroutine of lines 254-259, for index ix of the sorted list: the store
\* deletes the pod
DeletePodOk(t, ix) ==
    /\ task[t].pc = "act" /\ task[t].diff > 0 /\ ix \in task[t].todo
    /\ LET name == DeleteTarget(task[t].list, ix)
       IN /\ task' = [task EXCEPT ![t].todo = @ \ {ix}, ![t].dels[name] = @ + 1]
          /\ pods' = StoreDelete(name)
    /\ UNCHANGED <<rcs, mux, cursor, opened, errSeen>>

\* the same goroutine when the store refuses: deletePod's error is dropped at
\* line 257, and the other goroutines of the batch run on
DeletePodFailAbort(t, ix) ==
    /\ task[t].pc = "act" /\ task[t].diff > 0 /\ ix \in task[t].todo
    /\ LET name == DeleteTarget(task[t].list, ix)
       IN task' = [task EXCEPT ![t].todo = {}, ![t].dels[name] = @ + 1,
                               ![t].failed = @ \cup {"delete"}]
    /\ UNCHANGED <<pods, rcs, mux, cursor, opened, errSeen>>
DeletePodFail(t, ix) ==
    /\ task[t].pc = "act" /\ task[t].diff > 0 /\ ix \in task[t].todo
    /\ LET name == DeleteTarget(task[t].list, ix)
       IN task' = [task EXCEPT ![t].todo = @ \ {ix}, ![t].dels[name] = @ + 1,
                               ![t].failed = @ \cup {"delete"}]
    /\ UNCHANGED <<pods, rcs, mux, cursor, opened, errSeen>>

\* wait.Wait(), lines 244 and 260
BarrierEarly(t) ==
    /\ task[t].pc = "act"
    /\ task' = [task EXCEPT ![t].pc = "status"]
    /\ UNCHANGED <<pods, rcs, mux, cursor, opened, errSeen>>
Barrier(t) ==
    /\ task[t].pc = "act" /\ task[t].todo = {}
    /\ task' = [task EXCEPT ![t].pc = "status"]
    /\ UNCHANGED <<pods, rcs, mux, cursor, opened, errSeen>>

\* line 262
NeedsUpdateAlways(ctl, num) == TRUE
NeedsUpdate(ctl, num) == ctl.status # num

\* line 263: what line 264 sends
StatusDesired(ctl, num) == ctl.replicas
StatusWritten(ctl, num) == num

\* lines 262-264: the whole controller value goes back, with the new status
UpdateOk(t) ==
    /\ task[t].pc = "status"
    /\ NeedsUpdate(task[t].ctl, task[t].num)
    /\ rcs[task[t].ctl.name].exists
    /\ rcs' = [rcs EXCEPT ![task[t].ctl.name] =
                 [exists |-> TRUE, replicas |-> task[t].ctl.replicas,
                  status |-> StatusWritten(task[t].ctl, task[t].num),
                  tmpl |-> task[t].ctl.tmpl]]
    /\ task' = [task EXCEPT ![t].pc = "ret", ![t].updates = @ + 1]
    /\ UNCHANGED <<pods, mux, cursor, opened, errSeen>>

\* lines 264-267: the store refuses the update (a conflict, no such controller)
UpdateFail(t) ==
    /\ task[t].pc = "status"
    /\ NeedsUpdate(task[t].ctl, task[t].num)
    /\ task' = [task EXCEPT ![t].pc = "ret", ![t].updates = @ + 1, ![t].err = TRUE,
                            ![t].failed = @ \cup {"update"}]
    /\ UNCHANGED <<pods, rcs, mux, cursor, opened, errSeen>>

\* line 262 false, line 269
SkipUpdate(t) ==
    /\ task[t].pc = "status"
    /\ ~NeedsUpdate(task[t].ctl, task[t].num)
    /\ task' = [task EXCEPT ![t].pc = "ret"]
    /\ UNCHANGED <<pods, rcs, mux, cursor, opened, errSeen>>

\* the call returns to its caller: the watch loop (lines 183-185) goes back to its
\* select, a goroutine of synchronize (lines 286-291) ends
Return(t) ==
    /\ task[t].pc = "ret"
    /\ task' = [task EXCEPT ![t] = IdleTask]
    /\ mux' = IF t = "ev" THEN "select" ELSE mux
    /\ UNCHANGED <<pods, rcs, cursor, opened, errSeen>>

\* ------------------------------------------------------------ the watch loop
\* Run, line 128: util.Forever calls watchControllers again whenever it returns.
\* lines 133-137: the watch opens at the cursor
WatchOpenOk ==
    /\ mux = "forever"
    /\ mux' = "select"
    /\ opened' = cursor
    /\ errSeen' = "no"
    /\ UNCHANGED <<pods, rcs, task, cursor>>

\* lines 138-142: the watch does not open; sleep, return, and Forever calls again
WatchOpenFail ==
    /\ mux = "forever"
    /\ opened' = cursor
    /\ errSeen' = "no"
    /\ UNCHANGED <<pods, rcs, task, mux, cursor>>

\* lines 148-154: the channel is closed
EvClosedReset ==
    /\ mux = "select"
    /\ mux' = "forever"
    /\ cursor' = EmptyRV
    /\ UNCHANGED <<pods, rcs, task, opened, errSeen>>
EvClosed ==
    /\ mux = "select"
    /\ mux' = "forever"
    /\ UNCHANGED <<pods, rcs, task, cursor, opened, errSeen>>

\* what lines 159 and 171 store
KeepCursor(c) == c
ClearedCursor(c) == EmptyRV

\* lines 155-161: an event of type watch.Error
EvError ==
    /\ mux = "select"
    /\ cursor' = ClearedCursor(cursor)
    /\ errSeen' = "last"
    /\ UNCHANGED <<pods, rcs, task, mux, opened>>

\* lines 163-173: the object is an *api.Status with Status == StatusFailure
EvStatusFailure ==
    /\ mux = "select"
    /\ cursor' = ClearedCursor(cursor)
    /\ errSeen' = "last"
    /\ UNCHANGED <<pods, rcs, task, mux, opened>>

\* lines 163-176: any other object (a Status that is no failure included)
EvOther ==
    /\ mux = "select"
    /\ UNCHANGED vars

\* lines 178-185: the object is a controller, whatever the event's type (Added or
\* Modified for one the store has, Deleted with its last value for one it had);
\* v is the object's ResourceVersion
EvRC(r, v) ==
    /\ mux = "select"
    /\ cursor' = v
    /\ errSeen' = IF errSeen = "no" THEN "no" ELSE "before"
    /\ task' = [task EXCEPT !["ev"] = StartTask(r)]
    /\ mux' = "event"
    /\ UNCHANGED <<pods, rcs, opened>>

\* ------------------------------------------------------------ the sweep
\* lines 276-280: the list of controllers fails
SweepListFail ==
    /\ mux = "select"
    /\ UNCHANGED vars

\* lines 146-147 and 276-293: a tick; one goroutine per listed controller.
\* synchronize is called, not spawned: the loop stays in it until line 294
TickDetached ==
    /\ mux = "select"
    /\ task' = [t \in Tasks |->
                  IF t \in RCs /\ rcs[t].exists THEN StartTask(t) ELSE task[t]]
    /\ UNCHANGED <<pods, rcs, mux, cursor, opened, errSeen>>
Tick ==
    /\ mux = "select"
    /\ task' = [t \in Tasks |->
                  IF t \in RCs /\ rcs[t].exists THEN StartTask(t) ELSE task[t]]
    /\ mux' = "sweep"
    /\ UNCHANGED <<pods, rcs, cursor, opened, errSeen>>

\* line 294: wg.Wait() returns
SweepDoneEarly ==
    /\ mux = "sweep"
    /\ mux' = "select"
    /\ UNCHANGED <<pods, rcs, task, cursor, opened, errSeen>>
SweepDone ==
    /\ mux = "sweep"
    /\ \A r \in RCs : task[r].pc = "idle"
    /\ mux' = "select"
    /\ UNCHANGED <<pods, rcs, task, cursor, opened, errSeen>>

\* ------------------------------------------------------------ the environment
\* a client deletes a controller (the store keeps nothing; the model keeps its last
\* value for the Deleted event)
EnvDeleteRC(r) ==
    /\ rcs[r].exists
    /\ rcs' = [rcs EXCEPT ![r].exists = FALSE]
    /\ UNCHANGED <<pods, task, mux, cursor, opened, errSeen>>

\* a pod of the store fails
EnvPodFails(i) ==
    /\ pods[i] # NoPod /\ pods[i].phase \in ActivePhases
    /\ pods' = [pods EXCEPT ![i].phase = "Failed", ![i].ready = FALSE]
    /\ UNCHANGED <<rcs, task, mux, cursor, opened, errSeen>>

\* a store call of a reconcile that never returns: the pod list (line 226), the
\* Create or Delete of the last goroutine of a batch still running (lines 97,
\* 104), or the status Update (line 264).  The call's goroutine stays in it
Hang(t) ==
    /\ \A u \in Tasks : task[u].pc # "hung"
    /\ \/ task[t].pc = "list"
       \/ /\ task[t].pc = "act" /\ Cardinality(task[t].todo) = 1
          /\ task[t].diff < 0 => ~LabelsEmpty(task[t].ctl.tmpl)
       \/ task[t].pc = "status" /\ NeedsUpdate(task[t].ctl, task[t].num)
    /\ task' = [task EXCEPT ![t].pc = "hung"]
    /\ UNCHANGED <<pods, rcs, mux, cursor, opened, errSeen>>

\* ------------------------------------------------------------ specifications
\* the pod populations over kinds K that fill at most the first n names
Populations(K, n) ==
    {f \in [PodIds -> K \cup {NoPod}] : \A i \in PodIds : i > n => f[i] = NoPod}

\* r1 is the controller under study; r2 is a second one, at rest
Controllers(n, st, l) ==
    [r \in RCs |->
        IF r = "r1"
        THEN [exists |-> TRUE, replicas |-> n, status |-> st, tmpl |-> l]
        ELSE [exists |-> TRUE, replicas |-> 0, status |-> 0, tmpl |-> Selector(r)]]

MuxKinds ==
    { [label |-> "a", phase |-> "Running", host |-> TRUE, ready |-> TRUE] }

QuietKinds ==
    MuxKinds \cup
    { [label |-> "a", phase |-> "Succeeded", host |-> TRUE, ready |-> FALSE],
      [label |-> "c", phase |-> "Running", host |-> TRUE, ready |-> TRUE] }

CoreKinds ==
    QuietKinds \cup
    { [label |-> "a", phase |-> "Pending", host |-> FALSE, ready |-> FALSE] }

SortKinds ==
    [label : {"a"}, phase : ActivePhases, host : BOOLEAN, ready : BOOLEAN]
    \cup [label : {"a"}, phase : TerminalPhases, host : {TRUE}, ready : {FALSE}]

TemplateLabels == {NoLabels, "a", "c"}

Reconcile(t) ==
    \/ ListPodsOk(t)
    \/ ListPodsFail(t)
    \/ CreateRefuse(t)
    \/ CreateOk(t)
    \/ CreateFail(t)
    \/ \E ix \in PodIds : DeletePodOk(t, ix)
    \/ \E ix \in PodIds : DeletePodFail(t, ix)
    \/ Barrier(t)
    \/ UpdateOk(t)
    \/ UpdateFail(t)
    \/ SkipUpdate(t)
    \/ Return(t)

\* the manager from NewReplicationManager and Run on, every store call free to fail,
\* clients free to delete controllers
Init ==
    /\ pods \in Populations(MuxKinds, InitPods)
    /\ \E n \in 0..MaxReplicas, l \in {NoLabels, "a"} : rcs = Controllers(n, 0, l)
    /\ task = [t \in Tasks |-> IdleTask]
    /\ mux = "forever"
    /\ cursor = EmptyRV /\ opened = EmptyRV /\ errSeen = "no"

Next ==
    \/ \E t \in Tasks : Reconcile(t)
    \/ WatchOpenOk
    \/ WatchOpenFail
    \/ EvClosed
    \/ EvError
    \/ EvStatusFailure
    \/ EvOther
    \/ \E r \in RCs, v \in Versions : EvRC(r, v)
    \/ SweepListFail
    \/ Tick
    \/ SweepDone
    \/ \E r \in RCs : EnvDeleteRC(r)

Spec == Init /\ [][Next]_vars

\* one call of syncReplicationController from the watch loop, on any population,
\* while pods fail and the controller may be deleted
SyncInit ==
    /\ pods \in Populations(CoreKinds, InitPods)
    /\ \E n \in 0..MaxReplicas, st \in 0..MaxReplicas, l \in TemplateLabels :
         rcs = Controllers(n, st, l)
    /\ task = [t \in Tasks |-> IF t = "ev" THEN StartTask("r1") ELSE IdleTask]
    /\ mux = "event"
    /\ cursor = "v1" /\ opened = EmptyRV /\ errSeen = "no"

SyncNext ==
    \/ Reconcile("ev")
    \/ \E i \in PodIds : EnvPodFails(i)
    \/ EnvDeleteRC("r1")

SpecSync == SyncInit /\ [][SyncNext]_vars

\* one call of syncReplicationController on pods of every kind the order tells apart
SortInit ==
    /\ pods \in Populations(SortKinds, SyncPods)
    /\ \E n \in 0..MaxReplicas : rcs = Controllers(n, 0, "a")
    /\ task = [t \in Tasks |-> IF t = "ev" THEN StartTask("r1") ELSE IdleTask]
    /\ mux = "event"
    /\ cursor = "v1" /\ opened = EmptyRV /\ errSeen = "no"

SortNext ==
    \/ ListPodsOk("ev")
    \/ CreateOk("ev")
    \/ \E ix \in PodIds : DeletePodOk("ev", ix)
    \/ Barrier("ev")
    \/ UpdateOk("ev")
    \/ SkipUpdate("ev")
    \/ Return("ev")

SpecSort == SortInit /\ [][SortNext]_vars

\* the manager alone: no client changes a controller or a pod, every store call
\* succeeds, the watch delivers controller events only
QuietInit ==
    /\ pods \in Populations(QuietKinds, InitPods)
    /\ \E n \in 0..MaxReplicas, l \in TemplateLabels : rcs = Controllers(n, 0, l)
    /\ task = [t \in Tasks |-> IdleTask]
    /\ mux = "forever"
    /\ cursor = EmptyRV /\ opened = EmptyRV /\ errSeen = "no"

\* the one refusal left: the store has no name free for another pod
CreateFull(t) == FreeIds = {} /\ CreateFail(t)

QuietReconcile(t) ==
    \/ ListPodsOk(t)
    \/ CreateRefuse(t)
    \/ CreateOk(t)
    \/ CreateFull(t)
    \/ \E ix \in PodIds : DeletePodOk(t, ix)
    \/ Barrier(t)
    \/ UpdateOk(t)
    \/ SkipUpdate(t)
    \/ Return(t)

QuietNext ==
    \/ \E t \in Tasks : QuietReconcile(t)
    \/ WatchOpenOk
    \/ \E r \in RCs : EvRC(r, "v1")
    \/ Tick
    \/ SweepDone

\* the goroutines never stop on their own, the watch opens, and select takes the
\* tick again and again (it picks among its ready cases at random)
QuietSpec ==
    /\ QuietInit /\ [][QuietNext]_vars
    /\ \A t \in Tasks : WF_vars(QuietReconcile(t))
    /\ WF_vars(WatchOpenOk)
    /\ WF_vars(SweepDone)
    /\ SF_vars(Tick)

\* the manager alone as above, but one store call may never return
StuckNext ==
    \/ QuietNext
    \/ \E t \in Tasks : Hang(t)

StuckSpec ==
    /\ QuietInit /\ [][StuckNext]_vars
    /\ \A t \in Tasks : WF_vars(QuietReconcile(t))
    /\ WF_vars(WatchOpenOk)
    /\ WF_vars(SweepDone)
    /\ SF_vars(Tick)

\* ------------------------------------------------------------ claims
\* what a reconcile read and did
Listed(t) == {task[t].list[k] : k \in 1..Len(task[t].list)}
Acted(t) == task[t].pc \in {"status", "ret"}
\* the call returned at line 228
ListFailed(t) == task[t].pc = "ret" /\ task[t].err /\ task[t].updates = 0
DeletedOf(t) == {p \in Listed(t) : task[t].dels[p.name] > 0}
PreservedOf(t) == {p \in Listed(t) : task[t].dels[p.name] = 0}

Incomparable(a, b) == ~Less(a, b) /\ ~Less(b, a)
LessIrreflexive(S) == \A a \in S : ~Less(a, a)
LessAsymmetric(S) == \A a, b \in S : ~(Less(a, b) /\ Less(b, a))
LessTransitive(S) == \A a, b, c \in S : Less(a, b) /\ Less(b, c) => Less(a, c)
IncomparableTransitive(S) ==
    \A a, b, c \in S : Incomparable(a, b) /\ Incomparable(b, c) => Incomparable(a, c)
LessRanks(S) ==
    \A a, b \in S :
        /\ ~a.host /\ b.host => Less(a, b) /\ ~Less(b, a)
        /\ a.host = b.host /\ PhaseKey(a.phase) < PhaseKey(b.phase)
               => Less(a, b) /\ ~Less(b, a)
        /\ a.host = b.host /\ a.phase = b.phase /\ ~a.ready /\ b.ready
               => Less(a, b) /\ ~Less(b, a)

\* the calls a reconcile has started: the goroutines that ran and those still to run
RECURSIVE SumTo(_, _)
SumTo(f, n) == IF n = 0 THEN 0 ELSE f[n] + SumTo(f, n - 1)
Pending(t) == Cardinality(task[t].todo)
CreatesIssued(t) == task[t].creates + (IF task[t].diff < 0 THEN Pending(t) ELSE 0)
DeletesIssued(t) ==
    SumTo(task[t].dels, MaxPods) + (IF task[t].diff > 0 THEN Pending(t) ELSE 0)
Quota(n) == IF n > 0 THEN n ELSE 0
HasListed(t) == task[t].pc \in {"act", "status"} \/ (task[t].pc = "ret" /\ ~ListFailed(t))

\* C2: a reconcile issues at most max(0, desired - active) creates, none when
\* active >= desired, and never creates and deletes together
C2_CreateQuota ==
    \A t \in Tasks :
        /\ CreatesIssued(t) <= Quota(task[t].ctl.replicas - task[t].num)
        /\ task[t].posts <= task[t].creates
        /\ task[t].num >= task[t].ctl.replicas => CreatesIssued(t) = 0
        /\ ~(CreatesIssued(t) > 0 /\ DeletesIssued(t) > 0)

C2_Witness ==
    /\ task["ev"].pc = "ret" /\ task["ev"].num = 0
    /\ task["ev"].creates = 2 /\ task["ev"].ctl.replicas = 2
    /\ Cardinality(ActiveOwned("r1")) = 2

\* C3: a reconcile issues at most max(0, active - desired) deletes, none when
\* active <= desired, each for a pod of its active list and no two for the same pod
C3_DeleteQuota ==
    \A t \in Tasks :
        /\ DeletesIssued(t) <= Quota(task[t].num - task[t].ctl.replicas)
        /\ task[t].num <= task[t].ctl.replicas => DeletesIssued(t) = 0
        /\ \A i \in PodIds :
              /\ task[t].dels[i] <= 1
              /\ task[t].dels[i] > 0 => \E p \in Listed(t) : p.name = i

C3_Witness ==
    /\ task["ev"].pc = "ret" /\ task["ev"].num = 2 /\ task["ev"].ctl.replicas = 0
    /\ SumTo(task["ev"].dels, MaxPods) = 2
    /\ ActiveOwned("r1") = {}

\* C6: a pod listed as Succeeded or Failed is not in the active list, is not
\* counted in the active count of the diff and of the status, and gets no delete
C6_TerminalUntouched ==
    \A t \in Tasks :
        /\ \A p \in Listed(t) : p.phase \notin TerminalPhases
        /\ task[t].num = Len(task[t].list)
        /\ \A i \in PodIds : task[t].dels[i] > 0 =>
              \E p \in Listed(t) : p.name = i /\ p.phase \notin TerminalPhases

C6_Witness ==
    /\ task["ev"].pc = "ret" /\ task["ev"].num = 1 /\ task["ev"].ctl.replicas = 0
    /\ task["ev"].dels[2] = 1
    /\ pods[1] # NoPod /\ pods[1].label = "a" /\ pods[1].phase = "Succeeded"
    /\ task["ev"].dels[1] = 0

\* C7: a reconcile whose active count equals the status of its controller value
\* sends no Update; one whose count differs sends exactly one
C7_StatusIdempotence ==
    \A t \in Tasks :
        /\ task[t].updates <= 1
        /\ task[t].updates = 1 => task[t].num # task[t].ctl.status
        /\ task[t].pc = "ret" /\ ~ListFailed(t) /\ task[t].num # task[t].ctl.status
              => task[t].updates = 1

C7_Witness ==
    /\ task["ev"].pc = "ret" /\ ~task["ev"].err
    /\ task["ev"].num = 2 /\ task["ev"].ctl.status = 2 /\ task["ev"].updates = 0
    /\ task["ev"].dels[1] = 1

\* C8: a createReplica call for a controller whose template has no labels sends
\* no Create and leaves the pods as they are
C8_EmptyLabelRefusal ==
    [][\A t \in Tasks :
          task'[t].creates = task[t].creates + 1 /\ task[t].ctl.tmpl = NoLabels
              => pods' = pods /\ task'[t].posts = task[t].posts]_vars

C8_Witness ==
    /\ task["ev"].ctl.tmpl = NoLabels /\ task["ev"].creates = 2
    /\ task["ev"].posts = 0 /\ task["ev"].pc = "ret"

\* C1: with no outside change and every store call succeeding, the active pods a
\* controller owns come to number its spec.replicas and stay so, provided its
\* template has labels and they satisfy its selector
TemplateOwned(r) ==
    ~LabelsEmpty(rcs[r].tmpl) /\ Matches(Selector(r), rcs[r].tmpl)
Converged(r) == Cardinality(ActiveOwned(r)) = rcs[r].replicas

C1_Convergence ==
    \A r \in RCs : TemplateOwned(r) => <>[]Converged(r)

\* C1 as stated: for any controller
C1_Original ==
    \A r \in RCs : <>[]Converged(r)

C1_Witness ==
    /\ TemplateOwned("r1") /\ Converged("r1") /\ rcs["r1"].replicas = 2
    /\ pods[1] # NoPod /\ pods[1].phase = "Succeeded"
    /\ pods[3] # NoPod /\ pods[4] # NoPod
    /\ mux = "select" /\ rcs["r1"].status = 2

\* C4: the pods a reconcile deletes are the first ones of its list in deletion
\* order: no preserved pod is unassigned while a deleted one is assigned, and no
\* preserved pod is Pending while a deleted one, alike in host and readiness, is Running
C4_DeletionPriority ==
    \A t \in Tasks :
        Acted(t) /\ task[t].diff > 0 =>
            \A d \in DeletedOf(t), p \in PreservedOf(t) :
                /\ ~(~p.host /\ d.host)
                /\ ~(p.host = d.host /\ p.ready = d.ready
                     /\ p.phase = "Pending" /\ d.phase = "Running")

\* C5: activePods.Less is a strict weak order over the active pods a reconcile
\* sorts: irreflexive, asymmetric, transitive, with transitive incomparability,
\* ranking unassigned first, then Pending < Unknown < Running, then not ready first
C5_StrictWeakOrder ==
    \A t \in Tasks :
        task[t].pc # "list" =>
            /\ LessIrreflexive(Listed(t))
            /\ LessAsymmetric(Listed(t))
            /\ LessTransitive(Listed(t))
            /\ IncomparableTransitive(Listed(t))
            /\ LessRanks(Listed(t))


\* C9: an Error event or a failure Status empties the cursor and starts no
\* reconcile, and a Watch call that follows with no controller event in between
\* is given the empty cursor
C9_CursorReset ==
    [][/\ errSeen # "last" /\ errSeen' = "last"
           => /\ cursor' = EmptyRV
              /\ task' = task
              /\ mux = "select" /\ mux' = "select"
       /\ errSeen = "last" => cursor = EmptyRV
       /\ mux = "forever" /\ errSeen = "last" /\ errSeen' = "no"
           => opened' = EmptyRV]_vars

\* C9 as stated: the next Watch call after a protocol error is given the empty cursor
C9_Original ==
    [][/\ errSeen # "last" /\ errSeen' = "last"
           => /\ cursor' = EmptyRV
              /\ task' = task
              /\ mux = "select" /\ mux' = "select"
       /\ mux = "forever" /\ errSeen # "no" /\ errSeen' = "no"
           => opened' = EmptyRV]_vars

C9_Witness ==
    /\ mux = "forever" /\ errSeen = "last"
    /\ opened = "v1" /\ cursor = EmptyRV

\* C10: with no outside change and every store call succeeding, the
\* status.replicas of each controller comes to equal the number of active pods it
\* owns, and stays equal
StatusAccurate(r) == rcs[r].status = Cardinality(ActiveOwned(r))

C10_StatusAccuracy ==
    \A r \in RCs : rcs[r].exists => <>[]StatusAccurate(r)

C10_Witness ==
    /\ StatusAccurate("r1") /\ rcs["r1"].status = 2 /\ rcs["r1"].replicas = 2
    /\ rcs["r1"].tmpl = NoLabels /\ mux = "select"
    /\ pods[1] # NoPod /\ pods[1].phase = "Running"

\* the order of the steps of one call of syncReplicationController
PcRank(pc) ==
    CASE pc = "list" -> 1
      [] pc = "act" -> 2
      [] pc = "status" -> 3
      [] pc = "ret" -> 4
      [] OTHER -> 5

\* C11: every watch event that carries a controller, whatever its type, starts one
\* reconcile of that controller value, run by the watch loop itself: the loop
\* consumes no other event and takes no tick until that reconcile has returned
C11_EventReconcile ==
    /\ [](mux = "event" <=> task["ev"].pc # "idle")
    /\ [][/\ mux = "select" /\ mux' = "event"
              => /\ \E r \in RCs : task'["ev"] = StartTask(r)
                 /\ cursor' \in Versions
          /\ task["ev"].pc = "idle" /\ task'["ev"].pc # "idle"
              => mux = "select" /\ mux' = "event"
          /\ mux = "event"
              => /\ cursor' = cursor /\ errSeen' = errSeen /\ opened' = opened
                 /\ mux' \in {"event", "select"}
                 /\ mux' = "select" <=> task["ev"].pc = "ret" /\ task'["ev"].pc = "idle"
                 /\ PcRank(task'["ev"].pc) >= PcRank(task["ev"].pc)
                 /\ task'["ev"].pc # "idle" => task'["ev"].ctl = task["ev"].ctl
                 /\ \A r \in RCs : task'[r] = task[r]]_vars

C11_Witness ==
    /\ mux = "event" /\ task["ev"].pc = "ret" /\ task["ev"].ctl.name = "r1"
    /\ ~rcs["r1"].exists /\ cursor = "v2" /\ task["ev"].creates = 2

\* C12: a reconcile started by a sweep and a reconcile started by a watch event
\* are never in progress together, for the same controller or for two: both are
\* run from the one goroutine of Run, which is inside synchronize or inside the
\* event's syncHandler call, never both
InProgress(t) == task[t].pc # "idle"

Hung(t) == task[t].pc = "hung"

C13_NoWedge ==
    <>[](\E t \in Tasks : Hung(t)) => []<><<Tick>>_vars

\* C14: a reconcile returns an error exactly when its pod list or its status
\* Update failed; after a failed pod list it has sent no create, delete or Update;
\* a Create or Delete that fails leaves the rest of its batch to run, the status
\* write-back to happen as it would have, and the return value as it was
ActuationFailed(t) == task[t].failed \cap {"create", "delete"} # {}

C14_ErrorPropagation ==
    \A t \in Tasks :
        /\ task[t].pc # "ret" => ~task[t].err
        /\ task[t].pc = "ret" =>
              (task[t].err <=> task[t].failed \cap {"list", "update"} # {})
        /\ "list" \in task[t].failed =>
              /\ task[t].pc = "ret"
              /\ task[t].creates = 0 /\ task[t].posts = 0
              /\ SumTo(task[t].dels, MaxPods) = 0 /\ task[t].updates = 0
        /\ ActuationFailed(t) /\ task[t].pc \in {"status", "ret"} =>
              /\ task[t].creates = Quota(task[t].ctl.replicas - task[t].num)
              /\ SumTo(task[t].dels, MaxPods) = Quota(task[t].num - task[t].ctl.replicas)
        /\ ActuationFailed(t) /\ task[t].pc = "ret" =>
              (task[t].updates = 1 <=> NeedsUpdate(task[t].ctl, task[t].num))

C14_Witness ==
    /\ task["ev"].pc = "ret" /\ task["ev"].failed = {"delete"} /\ ~task["ev"].err
    /\ SumTo(task["ev"].dels, MaxPods) = 2 /\ task["ev"].updates = 1
    /\ pods[1] # NoPod /\ pods[2] = NoPod /\ rcs["r1"].status = 2

\* C15: a tick starts one reconcile for each controller the store lists, with the
\* value listed, and no other; synchronize returns when all of them have
\* returned; a reconcile that returns, with an error or without, leaves the others
\* running; no sweep reconcile starts in any other way (a failed list starts none)
C15_FullResync ==
    /\ []((\E r \in RCs : InProgress(r)) => mux = "sweep")
    /\ [][/\ mux = "select" /\ mux' = "sweep"
              => /\ \A r \in RCs :
                       task'[r] = IF rcs[r].exists THEN StartTask(r) ELSE IdleTask
                 /\ task'["ev"] = task["ev"]
          /\ \A r \in RCs :
                ~InProgress(r) /\ task'[r].pc # "idle"
                    => mux = "select" /\ mux' = "sweep"
          /\ mux = "sweep" /\ mux' # "sweep"
              => /\ mux' = "select"
                 /\ \A r \in RCs : ~InProgress(r) /\ task'[r] = task[r]
          /\ \A r \in RCs :
                task[r].pc = "ret" /\ task'[r].pc = "idle"
                    => \A u \in RCs \ {r} : task'[u] = task[u]
          /\ \A r \in RCs :
                /\ InProgress(r) => PcRank(task'[r].pc) >= PcRank(task[r].pc)
                /\ InProgress(r) /\ task[r].pc # "ret" => task'[r].pc # "idle"]_vars

C15_Witness ==
    /\ mux = "sweep"
    /\ task["r1"].pc = "ret" /\ task["r1"].err /\ task["r1"].updates = 1
    /\ task["r2"].pc = "ret" /\ ~task["r2"].err

\* C16: with no outside change, for a controller whose template labels satisfy
\* its selector, no step takes the number of active pods it owns past
\* spec.replicas or away from it: the count after a step lies between the count
\* before it and spec.replicas.  Hence, in every reachable state, it lies between
\* the initial count and spec.replicas
ActiveCount(r) == Cardinality(ActiveOwned(r))
Min2(a, b) == IF a < b THEN a ELSE b
Max2(a, b) == IF a < b THEN b ELSE a

C16_NoOvershoot ==
    [][\A r \in RCs :
          TemplateOwned(r) =>
              /\ ActiveCount(r)' <= Max2(ActiveCount(r), rcs[r].replicas)
              /\ ActiveCount(r)' >= Min2(ActiveCount(r), rcs[r].replicas)
              /\ rcs'[r].replicas = rcs[r].replicas]_vars

C16_Witness ==
    /\ TemplateOwned("r1") /\ rcs["r1"].replicas = 1 /\ ActiveCount("r1") = 1
    /\ pods[1] = NoPod /\ pods[2] # NoPod /\ pods[2].phase = "Running"
    /\ rcs["r1"].status = 1 /\ mux = "select"

\* C17: the status.replicas a reconcile writes is the number of active pods it
\* listed, fixed before its creates and deletes, whatever spec.replicas is and
\* whatever the store holds once they are done; a reconcile that lists no active
\* pod for a controller with status.replicas = 0 and spec.replicas = n sends n
\* createReplica calls and no Update
ScaleUpFromNothing(t) ==
    /\ task[t].pc = "ret" /\ "list" \notin task[t].failed
    /\ task[t].num = 0 /\ task[t].ctl.status = 0

C17_StatusIsObservation ==
    /\ [](\A t \in Tasks :
            /\ task[t].num = Len(task[t].list)
            /\ ScaleUpFromNothing(t) =>
                  task[t].creates = task[t].ctl.replicas /\ task[t].updates = 0)
    /\ [][/\ \A r \in RCs :
                rcs'[r].status # rcs[r].status =>
                    \E t \in Tasks :
                        /\ task[t].pc = "status" /\ task[t].ctl.name = r
                        /\ task'[t].updates = task[t].updates + 1
                        /\ rcs'[r].status = task[t].num
          /\ \A t \in Tasks :
                task[t].pc \in {"act", "status"} =>
                    task'[t].num = task[t].num /\ task'[t].list = task[t].list]_vars

C17_Witness ==
    /\ task["ev"].pc = "ret" /\ task["ev"].updates = 1 /\ task["ev"].failed = {}
    /\ task["ev"].num = 2 /\ task["ev"].ctl.replicas = 0
    /\ rcs["r1"].status = 2 /\ ActiveCount("r1") = 0

C17_ScaleUpReached ==
    /\ ScaleUpFromNothing("ev") /\ task["ev"].ctl.replicas = MaxReplicas
    /\ task["ev"].posts = MaxReplicas /\ ActiveCount("r1") = MaxReplicas
    /\ rcs["r1"].status = 0

\* C18: the deletes of one batch can run in any order; the status Update and the
\* return of a reconcile come only when every createReplica or deletePod call the
\* reconcile started has returned, so a reconcile that has returned has none
\* still running
BatchDone(t) ==
    /\ task[t].todo = {}
    /\ task[t].creates = Quota(task[t].ctl.replicas - task[t].num)
    /\ SumTo(task[t].dels, MaxPods) = Quota(task[t].num - task[t].ctl.replicas)

C18_ActuationBarrier ==
    /\ [](\A t \in Tasks :
            /\ task[t].pc \in {"status", "ret"} /\ "list" \notin task[t].failed
                  => BatchDone(t)
            /\ task[t].pc \in {"idle", "list", "ret"} => task[t].todo = {}
            /\ task[t].updates > 0 => task[t].todo = {}
            /\ task[t].pc = "act" /\ task[t].diff > 0 =>
                  \A ix \in task[t].todo : ENABLED DeletePodOk(t, ix))
    /\ [][\A t \in Tasks :
             /\ task'[t].updates # task[t].updates /\ task'[t].pc # "idle"
                   => task[t].pc = "status" /\ BatchDone(t)
             /\ InProgress(t) /\ task'[t].pc = "idle"
                   => task[t].pc = "ret" /\ task[t].todo = {}
             /\ task[t].pc = "act" /\ task'[t].pc # "act"
                   => task'[t].pc = "status" /\ BatchDone(t)]_vars

C18_Witness ==
    /\ task["ev"].pc = "status" /\ task["ev"].diff = 2 /\ BatchDone("ev")
    /\ task["ev"].updates = 0 /\ pods[1] = NoPod /\ pods[2] = NoPod

\* C19: the cursor is empty or the ResourceVersion of the last controller event
\* processed, and empty after a protocol error until the next controller event;
\* only a controller event (set) and a protocol error (cleared) change it; a
\* tick, an event with another object, a Watch call that fails and a closed
\* channel leave it as it is, and of these only the tick starts reconciles (the
\* sweep's); every Watch call is given the cursor as it then is
CursorShape ==
    /\ cursor \in {EmptyRV} \cup Versions
    /\ errSeen = "last" => cursor = EmptyRV
    /\ mux = "event" => cursor \in Versions

EventStep == mux = "select" /\ mux' = "event"
TickStep == mux = "select" /\ mux' = "sweep"
ClosedStep == mux = "select" /\ mux' = "forever"

CursorSteps ==
    /\ cursor' # cursor =>
          \/ EventStep /\ cursor' \in Versions
          \/ mux = "select" /\ mux' = "select" /\ errSeen' = "last"
                 /\ cursor' = EmptyRV
    /\ EventStep => cursor' \in Versions /\ InProgress("ev")'
    /\ ClosedStep => cursor' = cursor /\ task' = task
    /\ mux = "forever" => cursor' = cursor /\ task' = task
    /\ mux = "forever" /\ (mux' = "select" \/ opened' # opened) => opened' = cursor
    /\ \A t \in Tasks : ~InProgress(t) /\ InProgress(t)' => EventStep \/ TickStep

C19_CursorInvariant ==
    /\ []CursorShape
    /\ [][/\ CursorSteps
          /\ TickStep => cursor' = cursor /\ task'["ev"] = task["ev"]]_vars

\* C19 as stated: a tick, too, starts no reconcile
C19_Original ==
    /\ []CursorShape
    /\ [][/\ CursorSteps
          /\ TickStep => cursor' = cursor /\ task' = task]_vars

C19_Witness ==
    /\ mux = "select" /\ opened = "v2" /\ cursor = "v2" /\ errSeen = "no"
    /\ \A t \in Tasks : ~InProgress(t)

\* C20: no createReplica call is made for a controller the store no longer has,
\* be it in the reconcile of its Deleted event or in a sweep reconcile of a
\* controller deleted after the sweep listed it
C20_NoCreateForDeleted ==
    [][\A t \in Tasks :
          task'[t].creates = task[t].creates + 1
              => rcs[task[t].ctl.name].exists]_vars

====
